---------------------------- MODULE Spec2Model ----------------------------
(***************************************************************************)
(* A model of the task definition and execution engine of poethepoet:      *)
(*   - the options schema            (src/poethepoet/options.py)           *)
(*   - the config loader and merger  (src/poethepoet/config.py)            *)
(*   - the sequence task             (src/poethepoet/task/sequence.py)     *)
(*   - the switch task               (src/poethepoet/task/switch.py)       *)
(*                                                                         *)
(* Python values are modelled by their repr, as strings: "''" is the empty *)
(* str, "{}" the empty dict, "[]" the empty list, "False", "True", "0",    *)
(* "'cmd'" and so on.  "NoValue" is the sentinel of options.py line 5.     *)
(* An exception that leaves a function is modelled by a record             *)
(* [exc |-> <type>, ...] or by the string naming its type.                 *)
(***************************************************************************)
EXTENDS Integers, Sequences, FiniteSets, TLC

VARIABLES
    \* ---- options schema (options.py) ----
    opt_cls,        \* the PoeOptions subclass of the object under test
    opt_dict,       \* options_dict handed to __init__
    opt_attrs,      \* the instance attributes set by __init__ (key -> value)
    opt_pc,         \* "new" before __init__, "ready" after
    opt_call,
    _PoeOptions__annotations,  \* per class, the field dict get_fields stored on it
    fields_call,    \* the last call of get_fields: the class and what it returned       \* the last call made on the object and what it gave
    \* ---- sequence task (sequence.py) ----
    seq_def,        \* the sequence's spec: options and subtask specs
    seq_args,       \* the invocation's inputs: named args and extra args
    seq_pc,         \* position inside SequenceTask._handle_run
    seq_idx,        \* index (1-based) of the subtask the loop is at
    seq_started,    \* indexes of the subtasks whose run() was called, in order
    seq_returned,   \* indexes of the subtasks whose run() ended, in order
    non_zero_subtasks, \* the local list of sequence.py line 132
    multistage,     \* context.multistage
    seq_result,     \* what _handle_run gave: a return value or an exception
    \* ---- switch task (switch.py) ----
    sw_def,         \* the switch's task definition (control, cases, default)
    ctx_dry,        \* context.dry
    sw_pc,          \* position in validate / build / run
    sw_valid,       \* what _validate_task_def returned
    case_specs,     \* TaskSpec.case_specs: a list of (keys, case index) items
    switch_tasks,   \* SwitchTask.switch_tasks: case key -> case index
    sw_inv,         \* the invocation's inputs: named args, extra args, args option
    sw_control,     \* the control task's run: "not_run", "running", "returned"
    sw_control_args,\* the extra args the control task's run was given
    sw_output_read, \* whether context.get_task_output was called
    sw_case_ran,    \* indexes of the case tasks whose run was called, in order
    sw_case_args,   \* the extra args the case task's run was given
    sw_multistage,  \* context.multistage, as the switch sets it
    sw_result,      \* what the pipeline gave: a return value or an exception
    \* ---- config loader (config.py) ----
    cfg_fs,         \* the files: where the project file is, its content, the
                    \* include files' contents
    cwd,            \* PoeConfig.cwd, as its depth below the filesystem root
    cwd_relative,   \* PoeConfig.cwd was given as the relative path "."
    find_call,      \* the last call of find_config_file made on its own
    _project_config,   \* PoeConfig._project_config: its poe options and path
    _included_config,  \* PoeConfig._included_config: the IncludedConfigs, in order
    _project_dir,   \* PoeConfig._project_dir, as a depth
    cfg_loads,      \* how many times load() was called
    cfg_result,     \* what the last load() gave
    raw_poe_config, \* ProjectConfig.poe_options as validate() sees it (key -> value)
    validate_call   \* the last call of validate(): what it raised, the steps it began

optVars == <<opt_cls, opt_dict, opt_attrs, opt_pc, opt_call,
             _PoeOptions__annotations, fields_call>>
seqVars == <<seq_def, seq_args, seq_pc, seq_idx, seq_started, seq_returned,
             non_zero_subtasks, multistage, seq_result>>
swVars == <<sw_def, ctx_dry, sw_pc, sw_valid, case_specs, switch_tasks, sw_inv,
            sw_control, sw_control_args, sw_output_read, sw_case_ran,
            sw_case_args, sw_multistage, sw_result>>
valVars == <<raw_poe_config, validate_call>>
cfgVars == <<cfg_fs, cwd, cwd_relative, find_call, _project_config,
             _included_config, _project_dir, cfg_loads, cfg_result, valVars>>
vars == <<optVars, seqVars, swVars, cfgVars>>

----------------------------------------------------------------------------
(* Small helpers on functions used as Python dicts.                        *)

\* dict.update: the entries of g replace or extend those of f.
DictUpdate(f, g) ==
    [k \in (DOMAIN f) \cup (DOMAIN g) |-> IF k \in DOMAIN g THEN g[k] ELSE f[k]]

EmptyDict == [k \in {} |-> "NoValue"]

\* Python truthiness of a value given by its repr.
Truthy(v) == v \notin {"False", "None", "0", "''", "{}", "[]", "()"}

----------------------------------------------------------------------------
(* Options schema: the types and classes declared in the source.           *)

\* typing.get_origin of an annotation, by the annotation's text.
GetOrigin(t) ==
    CASE t \in {"Union[bool, str]", "Union[str, dict]",
                "Union[str, Sequence[str]]", "Union[str, List[str]]",
                "Union[str, Sequence[str], Mapping[str, str]]"} -> "Union"
      [] t \in {"Mapping[str, str]", "Mapping[str, Any]"} -> "collections.abc.Mapping"
      [] t \in {"Dict[str, str]", "Dict[str, Any]", "Dict[str, Type]"} -> "dict"
      [] t \in {"Sequence[str]"} -> "collections.abc.Sequence"
      [] t \in {"List[str]"} -> "list"
      [] OTHER -> "None"

\* typing.get_args of a Union annotation.
GetArgs(t) ==
    CASE t = "Union[bool, str]" -> <<"bool", "str">>
      [] t = "Union[str, dict]" -> <<"str", "dict">>
      [] t = "Union[str, Sequence[str]]" -> <<"str", "Sequence[str]">>
      [] t = "Union[str, List[str]]" -> <<"str", "List[str]">>
      [] t = "Union[str, Sequence[str], Mapping[str, str]]" ->
             <<"str", "Sequence[str]", "Mapping[str, str]">>
      [] OTHER -> <<>>

\* Calling a type with no argument: builtins and the typing aliases of
\* concrete containers construct their empty value, the aliases of abstract
\* classes (and Union itself) raise TypeError.
Construct(t) ==
    CASE t = "str" -> "''"
      [] t = "int" -> "0"
      [] t = "bool" -> "False"
      [] t \in {"dict", "Dict[str, str]", "Dict[str, Any]", "Dict[str, Type]"} -> "{}"
      [] t \in {"list", "List[str]"} -> "[]"
      [] OTHER -> "TypeError"

\* keyword.iskeyword, on the keys that occur.
PyKeywords == {"assert", "if", "else", "import", "from", "class", "def", "in", "is"}
iskeyword(key) == key \in PyKeywords

\* str.startswith("_")
StartsWithUnderscore(key) == key \in {"_PoeOptions__annotations"}

OptionClasses ==
    {"ProjectConfig.ConfigOptions", "IncludedConfig.ConfigOptions",
     "SequenceTask.TaskOptions", "SwitchTask.TaskOptions"}

\* cls.__bases__.  Derived.TaskOptions and Derived2.TaskOptions are not in
\* the source: they stand for the options of a task type that extends
\* SequenceTask, and of one that extends that.
Bases(cls) ==
    CASE cls = "PoeOptions" -> <<"object">>
      [] cls \in {"ProjectConfig.ConfigOptions", "IncludedConfig.ConfigOptions",
                  "PoeTask.TaskOptions"} -> <<"PoeOptions">>
      [] cls \in {"SequenceTask.TaskOptions", "SwitchTask.TaskOptions"} ->
             <<"PoeTask.TaskOptions">>
      [] cls = "Derived.TaskOptions" -> <<"SequenceTask.TaskOptions">>
      [] cls = "Derived2.TaskOptions" -> <<"Derived.TaskOptions">>
      [] OTHER -> <<>>

\* cls.__annotations__: the annotations of the class body itself.  The body of
\* PoeTask.TaskOptions is in task/base.py, outside these files: its own fields
\* are left out.
OwnAnnotations(cls) ==
    CASE cls = "PoeOptions" ->
             [k \in {"_PoeOptions__annotations"} |-> "Dict[str, Type]"]
      [] cls = "ProjectConfig.ConfigOptions" ->
             [k \in {"default_task_type", "default_array_task_type",
                     "default_array_item_task_type", "env", "envfile", "executor",
                     "include", "poetry_command", "poetry_hooks",
                     "shell_interpreter", "verbosity", "tasks"} |->
                CASE k \in {"default_task_type", "default_array_task_type",
                            "default_array_item_task_type", "poetry_command"} -> "str"
                  [] k \in {"env", "executor", "poetry_hooks"} -> "Mapping[str, str]"
                  [] k \in {"envfile", "shell_interpreter"} -> "Union[str, Sequence[str]]"
                  [] k = "include" -> "Union[str, Sequence[str], Mapping[str, str]]"
                  [] k = "verbosity" -> "int"
                  [] k = "tasks" -> "Mapping[str, Any]"]
      [] cls = "IncludedConfig.ConfigOptions" ->
             [k \in {"env", "envfile", "tasks"} |->
                CASE k = "env" -> "Dict[str, str]"
                  [] k = "envfile" -> "Union[str, List[str]]"
                  [] k = "tasks" -> "Dict[str, Any]"]
      [] cls = "SequenceTask.TaskOptions" ->
             [k \in {"ignore_fail", "default_item_type"} |->
                IF k = "ignore_fail" THEN "Union[bool, str]" ELSE "str"]
      [] cls = "SwitchTask.TaskOptions" ->
             [k \in {"control", "default"} |->
                IF k = "control" THEN "Union[str, dict]" ELSE "str"]
      [] cls = "Derived.TaskOptions" ->
             [k \in {"ignore_fail", "extra"} |->
                IF k = "ignore_fail" THEN "bool" ELSE "str"]
      [] cls = "Derived2.TaskOptions" -> [k \in {"more"} |-> "int"]
      [] OTHER -> EmptyDict

\* The class attributes a class body assigns: the declared literal defaults.
OwnClassAttrs(cls) ==
    CASE cls = "ProjectConfig.ConfigOptions" ->
             [k \in {"default_task_type", "default_array_task_type",
                     "default_array_item_task_type", "shell_interpreter",
                     "verbosity"} |->
                CASE k = "default_task_type" -> "'cmd'"
                  [] k = "default_array_task_type" -> "'sequence'"
                  [] k = "default_array_item_task_type" -> "'ref'"
                  [] k = "shell_interpreter" -> "'posix'"
                  [] k = "verbosity" -> "0"]
      [] OTHER -> EmptyDict

RECURSIVE UpdateFromBases(_, _, _)
\* options.py lines 77-78: annotations.update(base_cls.__annotations__) for
\* each direct base, in order.
UpdateFromBases(annotations, bases, i) ==
    IF i > Len(bases) THEN annotations
    ELSE UpdateFromBases(DictUpdate(annotations, OwnAnnotations(bases[i])), bases, i + 1)

\* PoeOptions.get_fields
get_fields(cls) ==
    LET annotations == DictUpdate(UpdateFromBases(EmptyDict, Bases(cls), 1),
                                  OwnAnnotations(cls))
        kept == {key \in DOMAIN annotations : ~StartsWithUnderscore(key)}
    IN  [key \in kept |-> annotations[key]]

RECURSIVE ClassAttrs(_)
\* Attribute lookup on the class: the class body's attributes, then the bases'.
ClassAttrs(cls) ==
    LET bases == Bases(cls)
        inherited == IF Len(bases) = 0 THEN EmptyDict ELSE ClassAttrs(bases[1])
    IN  DictUpdate(inherited, OwnClassAttrs(cls))

\* getattr(self, key, default): instance attribute, else class attribute,
\* else the default.
getattr(cls, attrs, key, default) ==
    IF key \in DOMAIN attrs THEN attrs[key]
    ELSE IF key \in DOMAIN ClassAttrs(cls) THEN ClassAttrs(cls)[key]
    ELSE default

hasattr(cls, attrs, key) ==
    key \in DOMAIN attrs \/ key \in DOMAIN ClassAttrs(cls)

\* PoeOptions.__init__: binds the declared fields the mapping gives.
OptionsInit(cls, options_dict) ==
    [key \in (DOMAIN get_fields(cls)) \cap (DOMAIN options_dict) |-> options_dict[key]]

\* A wrong type_of: container annotations are handed back as they are.
type_of_NoCollapse(cls, key) ==
    LET k == IF iskeyword(key) THEN key \o "_" ELSE key
        result == get_fields(cls)[k]
    IN  IF GetOrigin(result) = "Union"
        THEN [tuple |-> TRUE, types |-> GetArgs(result)]
        ELSE [tuple |-> FALSE, types |-> <<result>>]

\* PoeOptions.type_of: a tuple of member types for a Union, dict or list for
\* the container annotations, the annotation itself otherwise.
type_of(cls, key) ==
    LET k == IF iskeyword(key) THEN key \o "_" ELSE key
        result == get_fields(cls)[k]
    IN  IF GetOrigin(result) = "Union"
        THEN [tuple |-> TRUE, types |-> GetArgs(result)]
        ELSE IF GetOrigin(result) \in
                {"dict", "collections.abc.Mapping", "collections.abc.MutableMapping"}
        THEN [tuple |-> FALSE, types |-> <<"dict">>]
        ELSE IF GetOrigin(result) \in {"list", "collections.abc.Sequence"}
        THEN [tuple |-> FALSE, types |-> <<"list">>]
        ELSE [tuple |-> FALSE, types |-> <<result>>]

\* PoeOptions.get
get(cls, attrs, key0, default) ==
    LET key == IF iskeyword(key0) THEN key0 \o "_" ELSE key0
    IN  IF ~hasattr(cls, attrs, key) /\ key \notin DOMAIN get_fields(cls)
        THEN "KeyError"
        ELSE LET result == getattr(cls, attrs, key, default)
             IN  IF result = "NoValue"
                 THEN Construct(type_of(cls, key).types[1])
                 ELSE result

\* PoeOptions.is_set
is_set(cls, attrs, key) == getattr(cls, attrs, key, "NoValue") # "NoValue"


----------------------------------------------------------------------------
(* Options schema: an options object, constructed once and then queried.   *)

\* At most this many keys are given in options_dict.
MaxGiven == 2

ExplicitValues == {"'x'", "7"}

\* The keys a caller may pass or ask for: the declared fields and a key that
\* no class declares.
CallKeys(cls) == (DOMAIN get_fields(cls)) \cup {"unknown_key"}

OptionDicts(cls) ==
    UNION {[S -> ExplicitValues] :
             S \in {T \in SUBSET CallKeys(cls) : Cardinality(T) <= MaxGiven}}

NoCall == [op |-> "none", key |-> "", result |-> "none"]

\* No class has the attribute get_fields stores; get_fields was not called.
NoFieldsStored == [c \in {} |-> EmptyDict]
NoFieldsCall == [cls |-> "none", result |-> EmptyDict]

OptIdle ==
    /\ opt_cls = "PoeOptions"
    /\ opt_dict = EmptyDict
    /\ opt_attrs = EmptyDict
    /\ opt_pc = "idle"
    /\ opt_call = NoCall
    /\ _PoeOptions__annotations = NoFieldsStored
    /\ fields_call = NoFieldsCall

OptInit ==
    /\ opt_cls \in OptionClasses
    /\ opt_dict \in OptionDicts(opt_cls)
    /\ opt_attrs = EmptyDict
    /\ opt_pc = "new"
    /\ opt_call = NoCall
    /\ _PoeOptions__annotations = NoFieldsStored
    /\ fields_call = NoFieldsCall

\* PoeOptions.__init__
OptConstruct ==
    /\ opt_pc = "new"
    /\ opt_attrs' = OptionsInit(opt_cls, opt_dict)
    /\ opt_pc' = "ready"
    /\ UNCHANGED <<opt_cls, opt_dict, opt_call, _PoeOptions__annotations, fields_call>>
    /\ UNCHANGED <<seqVars, swVars, cfgVars>>

\* get(key)
OptGet ==
    /\ opt_pc = "ready"
    /\ \E key \in CallKeys(opt_cls) :
         opt_call' = [op |-> "get", key |-> key,
                      result |-> get(opt_cls, opt_attrs, key, "NoValue")]
    /\ UNCHANGED <<opt_cls, opt_dict, opt_attrs, opt_pc, _PoeOptions__annotations,
                   fields_call>>
    /\ UNCHANGED <<seqVars, swVars, cfgVars>>

\* get(key, None), as ConfigPartition.is_option_type_valid calls it
OptGetOrNone ==
    /\ opt_pc = "ready"
    /\ \E key \in CallKeys(opt_cls) :
         opt_call' = [op |-> "get_or_none", key |-> key,
                      result |-> get(opt_cls, opt_attrs, key, "None")]
    /\ UNCHANGED <<opt_cls, opt_dict, opt_attrs, opt_pc, _PoeOptions__annotations,
                   fields_call>>
    /\ UNCHANGED <<seqVars, swVars, cfgVars>>

\* is_set(key)
OptIsSet ==
    /\ opt_pc = "ready"
    /\ \E key \in CallKeys(opt_cls) :
         opt_call' = [op |-> "is_set", key |-> key,
                      result |-> IF is_set(opt_cls, opt_attrs, key)
                                 THEN "True" ELSE "False"]
    /\ UNCHANGED <<opt_cls, opt_dict, opt_attrs, opt_pc, _PoeOptions__annotations,
                   fields_call>>
    /\ UNCHANGED <<seqVars, swVars, cfgVars>>

OptNext == OptConstruct \/ OptGet \/ OptGetOrNone \/ OptIsSet

\* The classes get_fields is called on.
FieldClasses ==
    OptionClasses \cup {"PoeTask.TaskOptions", "Derived.TaskOptions",
                        "Derived2.TaskOptions"}

\* options.py line 75: hasattr(cls, "__annotations").  The name in the
\* string is not mangled, while line 80 stores the dict under the mangled
\* name _PoeOptions__annotations: no class ever has an attribute of the
\* name asked for.
HasFieldsStored(cls, stored) == FALSE

FieldsInit ==
    /\ opt_cls = "PoeOptions"
    /\ opt_dict = EmptyDict
    /\ opt_attrs = EmptyDict
    /\ opt_pc = "idle"
    /\ opt_call = NoCall
    /\ _PoeOptions__annotations = NoFieldsStored
    /\ fields_call = NoFieldsCall

\* A call of the class method get_fields: unless line 75 finds the dict
\* stored, it is computed and stored on the class (lines 76-84); what is
\* stored on the class is returned (line 85).
GetFieldsCall ==
    /\ \E cls \in FieldClasses :
         LET stored == IF HasFieldsStored(cls, _PoeOptions__annotations)
                       THEN _PoeOptions__annotations
                       ELSE DictUpdate(_PoeOptions__annotations,
                                       [c \in {cls} |-> get_fields(cls)])
         IN  /\ _PoeOptions__annotations' = stored
             /\ fields_call' = [cls |-> cls, result |-> stored[cls]]
    /\ UNCHANGED <<opt_cls, opt_dict, opt_attrs, opt_pc, opt_call>>
    /\ UNCHANGED <<seqVars, swVars, cfgVars>>

FieldsNext == GetFieldsCall

----------------------------------------------------------------------------
(* Sequence task.                                                          *)

\* The longest list of subtasks of the sequence that is run.
MaxSubtasks == 3

Digit(i) == CASE i = 0 -> "0" [] i = 1 -> "1" [] i = 2 -> "2" [] i = 3 -> "3"
              [] i = 4 -> "4" [] i = 5 -> "5" [] OTHER -> "n"

\* SequenceTask._subtask_name: f"{task_name}[{index}]", index counted from 0
_subtask_name(task_name, index) == task_name \o "[" \o Digit(index) \o "]"

\* A leaf subtask (its kind is outside these files): its run returns an exit
\* status.
Leaf(rc) == [kind |-> "leaf", rc |-> rc, ignore_fail |-> "NoValue", subtasks |-> <<>>]

\* A nested sequence of leaf subtasks, with its own ignore_fail option.
Nested(ignore_fail, subtasks) ==
    [kind |-> "sequence", rc |-> 0, ignore_fail |-> ignore_fail, subtasks |-> subtasks]

IgnoreFailValues == {"NoValue", "False", "True", "'return_zero'", "'return_non_zero'"}

SubtaskSpecs ==
    {Leaf(0), Leaf(1),
     Nested("NoValue", <<Leaf(0)>>),
     Nested("NoValue", <<Leaf(0), Leaf(1)>>),
     Nested("True", <<Leaf(1)>>),
     Nested("'return_non_zero'", <<Leaf(1), Leaf(0)>>)}

SeqsUpTo(S, n) == UNION {[1..k -> S] : k \in 0..n}

\* What a call gave: a returned value (exc = "none") or a raised exception.
Returned(v) == [exc |-> "none", value |-> v, msg |-> "", names |-> <<>>]
Raised(exc, msg, names) == [exc |-> exc, value |-> 0, msg |-> msg, names |-> names]
NoResult == [exc |-> "none", value |-> 0, msg |-> "not finished", names |-> <<>>]

\* self.spec.options.get("ignore_fail"), sequence.py line 131
IgnoreFailOption(raw) ==
    get("SequenceTask.TaskOptions",
        OptionsInit("SequenceTask.TaskOptions",
                    IF raw = "NoValue" THEN EmptyDict
                    ELSE [k \in {"ignore_fail"} |-> raw]),
        "ignore_fail", "NoValue")

\* A wrong line 137: a failure aborts the sequence whatever ignore_fail is.
AbortsOnFailure_IgnoresOption(ignore_fail, task_result) == task_result # 0

\* A wrong line 137: a failure never aborts the sequence.
AbortsOnFailure_Never(ignore_fail, task_result) == FALSE

\* sequence.py line 137: task_result and not ignore_fail
AbortsOnFailure(ignore_fail, task_result) ==
    task_result # 0 /\ ~Truthy(ignore_fail)

\* A wrong line 144: the failures are never reported.
ReportsNonZero_Never(ignore_fail, nz) == FALSE

\* sequence.py line 144: non_zero_subtasks and ignore_fail == "return_non_zero"
ReportsNonZero(ignore_fail, nz) ==
    Len(nz) > 0 /\ ignore_fail = "'return_non_zero'"

\* sequence.py lines 144-148: what _handle_run gives once the loop is over
SeqFinalResult(ignore_fail, nz) ==
    IF ReportsNonZero(ignore_fail, nz)
    THEN Raised("ExecutionError", "returned non-zero exit status", nz)
    ELSE Returned(0)

RECURSIVE RunTask(_, _)
RECURSIVE RunLoop(_, _, _, _, _)

\* sequence.py lines 133-148 for a nested sequence, run in one go: the loop
\* from subtask i on, then the final result.
RunLoop(task, name, ignore_fail, i, nz) ==
    IF i > Len(task.subtasks) THEN SeqFinalResult(ignore_fail, nz)
    ELSE LET sub_name == _subtask_name(name, i - 1)
             out == RunTask(task.subtasks[i], sub_name)
         IN  IF out.exc # "none" THEN out
             ELSE IF AbortsOnFailure(ignore_fail, out.value)
             THEN Raised("ExecutionError", "Sequence aborted after failed subtask",
                         <<sub_name>>)
             ELSE RunLoop(task, name, ignore_fail, i + 1,
                          IF out.value # 0 THEN Append(nz, sub_name) ELSE nz)

\* subtask.run(context, extra_args=tuple(), parent_env=env): a leaf returns
\* its exit status, a nested sequence runs its own _handle_run.
RunTask(task, name) ==
    IF task.kind = "leaf" THEN Returned(task.rc)
    ELSE RunLoop(task, name, IgnoreFailOption(task.ignore_fail), 1, <<>>)

ExtraArgs == {<<>>, <<" ">>, <<"x">>}

\* arg.strip()
Strip(arg) == IF arg = " " THEN "" ELSE arg

\* any(arg.strip() for arg in extra_args)
AnyNonBlank(extra_args) == \E i \in 1..Len(extra_args) : Strip(extra_args[i]) # ""

SeqIdle ==
    /\ seq_def = [name |-> "", ignore_fail |-> "NoValue", subtasks |-> <<>>]
    /\ seq_args = [named |-> FALSE, extra |-> <<>>]
    /\ seq_pc = "idle"
    /\ seq_idx = 1
    /\ seq_started = <<>>
    /\ seq_returned = <<>>
    /\ non_zero_subtasks = <<>>
    /\ multistage = FALSE
    /\ seq_result = NoResult

SeqInit ==
    /\ seq_def \in [name : {"seq"}, ignore_fail : IgnoreFailValues,
                    subtasks : SeqsUpTo(SubtaskSpecs, MaxSubtasks)]
    /\ seq_args \in [named : BOOLEAN, extra : ExtraArgs]
    /\ seq_pc = "start"
    /\ seq_idx = 1
    /\ seq_started = <<>>
    /\ seq_returned = <<>>
    /\ non_zero_subtasks = <<>>
    /\ multistage = FALSE
    /\ seq_result = NoResult

\* sequence.py lines 121-132: the argument check, the multistage mark
SeqBegin ==
    /\ seq_pc = "start"
    /\ IF ~seq_args.named /\ AnyNonBlank(seq_args.extra)
       THEN /\ seq_result' = Raised("PoeException", "does not accept arguments", <<>>)
            /\ seq_pc' = "done"
            /\ UNCHANGED multistage
       ELSE /\ multistage' = (Len(seq_def.subtasks) > 1)
            /\ seq_pc' = "loop"
            /\ UNCHANGED seq_result
    /\ UNCHANGED <<seq_def, seq_args, seq_idx, seq_started, seq_returned,
                   non_zero_subtasks>>
    /\ UNCHANGED <<optVars, swVars, cfgVars>>

\* A wrong line 133: the loop passes over a subtask.
NextSubtask_Skips(idx) == idx + 2

\* sequence.py line 133: for subtask in self.subtasks, the position after
\* the subtask at idx
NextSubtask(idx) == idx + 1

\* sequence.py line 134: the loop calls the next subtask's run
SeqStartSubtask ==
    /\ seq_pc = "loop"
    /\ seq_idx <= Len(seq_def.subtasks)
    /\ seq_started' = Append(seq_started, seq_idx)
    /\ seq_pc' = "running"
    /\ UNCHANGED <<seq_def, seq_args, seq_idx, seq_returned, non_zero_subtasks,
                   multistage, seq_result>>
    /\ UNCHANGED <<optVars, swVars, cfgVars>>

\* sequence.py lines 134-142: the subtask's run ends, by a return or by an
\* exception that leaves _handle_run with it
SeqSubtaskEnds ==
    /\ seq_pc = "running"
    /\ LET subtask == seq_def.subtasks[seq_idx]
           name == _subtask_name(seq_def.name, seq_idx - 1)
           ignore_fail == IgnoreFailOption(seq_def.ignore_fail)
           out == RunTask(subtask, name)
       IN  /\ seq_returned' = Append(seq_returned, seq_idx)
           /\ multistage' = (multistage \/ (subtask.kind = "sequence"
                                            /\ Len(subtask.subtasks) > 1))
           /\ IF out.exc # "none"
              THEN /\ seq_result' = out
                   /\ seq_pc' = "done"
                   /\ UNCHANGED <<seq_idx, non_zero_subtasks>>
              ELSE IF AbortsOnFailure(ignore_fail, out.value)
              THEN /\ seq_result' = Raised("ExecutionError",
                                           "Sequence aborted after failed subtask",
                                           <<name>>)
                   /\ seq_pc' = "done"
                   /\ UNCHANGED <<seq_idx, non_zero_subtasks>>
              ELSE /\ non_zero_subtasks' =
                        IF out.value # 0 THEN Append(non_zero_subtasks, name)
                        ELSE non_zero_subtasks
                   /\ seq_idx' = NextSubtask(seq_idx)
                   /\ seq_pc' = "loop"
                   /\ UNCHANGED seq_result
    /\ UNCHANGED <<seq_def, seq_args, seq_started>>
    /\ UNCHANGED <<optVars, swVars, cfgVars>>

\* sequence.py lines 144-148: the loop is over
SeqFinish ==
    /\ seq_pc = "loop"
    /\ seq_idx > Len(seq_def.subtasks)
    /\ seq_result' = SeqFinalResult(IgnoreFailOption(seq_def.ignore_fail),
                                    non_zero_subtasks)
    /\ seq_pc' = "done"
    /\ UNCHANGED <<seq_def, seq_args, seq_idx, seq_started, seq_returned,
                   non_zero_subtasks, multistage>>
    /\ UNCHANGED <<optVars, swVars, cfgVars>>

SeqNext == SeqBegin \/ SeqStartSubtask \/ SeqSubtaskEnds \/ SeqFinish

----------------------------------------------------------------------------
(* Switch task: the task definition and its validation.                    *)

\* The longest list of cases of a switch definition.
MaxCases == 2

DEFAULT_CASE == "__default__"

\* The `case` entry of a case definition: absent, a scalar, or a list.
NoCase == [kind |-> "absent", values |-> <<>>]
ScalarCase(v) == [kind |-> "scalar", values |-> <<v>>]
ListCase(vs) == [kind |-> "list", values |-> vs]

\* A case definition: its `case` entry, which of the options args and deps it
\* carries, and whether PoeTask.validate_def finds an issue in it.
CaseDef(case, opts, issue) == [case |-> case, opts |-> opts, issue |-> issue]

CaseDefs ==
    {CaseDef(c, {}, FALSE) :
        c \in {NoCase, ScalarCase("a"), ScalarCase("b"), ListCase(<<"b", "c">>),
               ListCase(<<"a", "b">>), ListCase(<<"a", "a">>), ListCase(<<>>)}}
    \cup {CaseDef(NoCase, {"args"}, FALSE), CaseDef(ScalarCase("a"), {"deps"}, FALSE),
          CaseDef(ScalarCase("b"), {}, TRUE)}

\* The `control` entry: absent, a string or a mapping; whether a mapping names
\* one of the allowed task types; whether PoeTask.validate_def finds an issue;
\* and what the control task does when run: its exit status and its output.
ControlDef(form, typed, issue, rc, out) ==
    [form |-> form, typed |-> typed, issue |-> issue, rc |-> rc, out |-> out]

ControlDefs ==
    {ControlDef("absent", FALSE, FALSE, 0, ""),
     ControlDef("dict", FALSE, FALSE, 0, "a"),
     ControlDef("str", FALSE, TRUE, 0, "a"),
     ControlDef("dict", TRUE, FALSE, 0, "a"),
     ControlDef("str", FALSE, FALSE, 0, "b"),
     ControlDef("str", FALSE, FALSE, 0, "z"),
     ControlDef("str", FALSE, FALSE, 1, "")}

\* The `default` option: absent (NoValue) or its value.
DefaultOptions == {"NoValue", "'pass'", "'fail'", "'skip'"}

SwitchDefs ==
    [name : {"sw"}, control : ControlDefs, cases : SeqsUpTo(CaseDefs, MaxCases),
     default : DefaultOptions]

PyList(items) == [tag |-> "list", items |-> items]

\* hash(x) succeeds: a list is unhashable.
Hashable(x) == x.tag # "list"

\* SwitchTask.get_case_keys: the list itself, or a one-element list.
get_case_keys(task_def) ==
    IF task_def.case.kind = "absent" THEN PyList(<<DEFAULT_CASE>>)
    ELSE IF task_def.case.kind = "list" THEN PyList(task_def.case.values)
    ELSE PyList(task_def.case.values)

RECURSIVE AllCaseKeys(_, _)
\* switch.py lines 247-250: the keys counted in `cases`, in insertion order,
\* one entry per occurrence.
AllCaseKeys(switch, i) ==
    IF i > Len(switch) THEN <<>>
    ELSE get_case_keys(switch[i]).items \o AllCaseKeys(switch, i + 1)

\* cases[case_key] once the counting loop is over
CaseCount(switch, key) ==
    LET keys == AllCaseKeys(switch, 1)
    IN  Cardinality({i \in 1..Len(keys) : keys[i] = key})

\* A wrong line 276: a key must occur three times to be refused.
IsDuplicate_OffByOne(count) == count > 2

\* switch.py line 276: count > 1
IsDuplicate(count) == count > 1

\* A wrong line 287: any value of the default option is taken.
DefaultOptionInvalid_Never(value) == FALSE

\* switch.py line 287: task_def["default"] not in ("pass", "fail")
DefaultOptionInvalid(value) == value \notin {"'pass'", "'fail'"}

\* switch.py lines 248-273, for one case: the error the loop body returns,
\* or "None".
CaseIssue(switch_task) ==
    IF "args" \in switch_task.opts \/ "deps" \in switch_task.opts
    THEN IF switch_task.case.kind = "absent"
         THEN "Default case includes invalid option"
         ELSE "Case includes invalid option"
    ELSE IF switch_task.issue THEN "case task issue"
    ELSE "None"

\* SwitchTask._validate_task_def: the error message, or "None".
_validate_task_def(task_def) ==
    LET control == task_def.control
        switch == task_def.cases
        bad == {i \in 1..Len(switch) : CaseIssue(switch[i]) # "None"}
        keys == AllCaseKeys(switch, 1)
        dups == {i \in 1..Len(keys) : IsDuplicate(CaseCount(switch, keys[i]))}
        Min(S) == CHOOSE i \in S : \A j \in S : i <= j
    IN  IF control.form = "absent" THEN "has no control task"
        ELSE IF control.form = "dict" /\ ~control.typed
        THEN "Control task must have a type that is one of expr, cmd, script"
        ELSE IF control.issue THEN "control task issue"
        ELSE IF bad # {} THEN CaseIssue(switch[Min(bad)])
        ELSE IF dups # {}
        THEN IF keys[Min(dups)] = DEFAULT_CASE
             THEN "includes more than one default case"
             ELSE "includes more than one case for a value"
        ELSE IF task_def.default # "NoValue" /\ DefaultOptionInvalid(task_def.default)
        THEN "The 'default' option should be one of ('pass', 'fail')"
        ELSE IF task_def.default # "NoValue" /\ CaseCount(switch, DEFAULT_CASE) > 0
        THEN "should not have both a default case and the 'default' option"
        ELSE "None"

----------------------------------------------------------------------------
(* Switch task: building the spec, the task, and running it.               *)

\* case_specs[keys] = index on a dict kept as a list of items in insertion
\* order.
DictSetItem(items, keys, index) ==
    IF \E j \in 1..Len(items) : items[j].keys = keys
    THEN [j \in 1..Len(items) |->
            IF items[j].keys = keys THEN [keys |-> keys, index |-> index]
            ELSE items[j]]
    ELSE Append(items, [keys |-> keys, index |-> index])

RECURSIVE BuildCaseSpecs(_, _, _)
\* SwitchTask.TaskSpec.__init__, lines 72-84: each case's spec is stored
\* under what get_case_keys returns; storing under an unhashable key raises
\* TypeError.
BuildCaseSpecs(switch, i, items) ==
    IF i > Len(switch) THEN [exc |-> "none", items |-> items]
    ELSE LET keys == get_case_keys(switch[i])
         IN  IF ~Hashable(keys) THEN [exc |-> "TypeError", items |-> items]
             ELSE BuildCaseSpecs(switch, i + 1, DictSetItem(items, keys, i))

\* switch.py line 118 reads the name `name`, which neither __init__ nor the
\* module binds.
NameIsBound == FALSE

NoTasks == [k \in {} |-> 0]

RECURSIVE RegisterCases(_, _, _)
\* SwitchTask.__init__, lines 114-131: one task per item of case_specs,
\* registered under each of the item's keys.
RegisterCases(items, i, tasks) ==
    IF i > Len(items) THEN [exc |-> "none", tasks |-> tasks]
    ELSE IF ~NameIsBound THEN [exc |-> "NameError", tasks |-> tasks]
    ELSE LET ks == items[i].keys.items
         IN  RegisterCases(items, i + 1,
                 DictUpdate(tasks, [k \in {ks[j] : j \in 1..Len(ks)} |-> items[i].index]))

\* dict.get(key, default), with 0 standing for None
DictGet(d, key, default) == IF key \in DOMAIN d THEN d[key] ELSE default

\* switch.py lines 201-203: the case task for the control output, else the
\* one under DEFAULT_CASE, else None (0)
LookupCase(tasks, control_task_output) ==
    DictGet(tasks, control_task_output, DictGet(tasks, DEFAULT_CASE, 0))

\* A wrong line 206: an unmatched value passes unless default is "fail".
UnmatchedPasses_Inverted(raw) == raw # "'fail'"

\* switch.py line 206: self.spec.options.get("default", "fail") == "pass"
UnmatchedPasses(raw) ==
    get("SwitchTask.TaskOptions",
        OptionsInit("SwitchTask.TaskOptions",
                    IF raw = "NoValue" THEN EmptyDict ELSE [k \in {"default"} |-> raw]),
        "default", "'fail'") = "'pass'"

SwInvocations == [named : BOOLEAN, extra : ExtraArgs, args_option : BOOLEAN]

SwIdle ==
    /\ sw_def = [name |-> "", control |-> ControlDef("absent", FALSE, FALSE, 0, ""),
                 cases |-> <<>>, default |-> "NoValue"]
    /\ ctx_dry = FALSE
    /\ sw_pc = "idle"
    /\ sw_valid = "not validated"
    /\ case_specs = <<>>
    /\ switch_tasks = NoTasks
    /\ sw_inv = [named |-> FALSE, extra |-> <<>>, args_option |-> FALSE]
    /\ sw_control = "not_run"
    /\ sw_control_args = <<>>
    /\ sw_output_read = FALSE
    /\ sw_case_ran = <<>>
    /\ sw_case_args = <<>>
    /\ sw_multistage = FALSE
    /\ sw_result = NoResult

SwInit ==
    /\ sw_def \in SwitchDefs
    /\ ctx_dry \in BOOLEAN
    /\ sw_pc = "defined"
    /\ sw_valid = "not validated"
    /\ case_specs = <<>>
    /\ switch_tasks = NoTasks
    /\ sw_inv = [named |-> FALSE, extra |-> <<>>, args_option |-> FALSE]
    /\ sw_control = "not_run"
    /\ sw_control_args = <<>>
    /\ sw_output_read = FALSE
    /\ sw_case_ran = <<>>
    /\ sw_case_args = <<>>
    /\ sw_multistage = FALSE
    /\ sw_result = NoResult

\* SwitchTask._validate_task_def, called when the config is validated: an
\* error it returns is raised as a PoeException (config.py lines 269-273).
SwValidate ==
    /\ sw_pc = "defined"
    /\ sw_valid' = _validate_task_def(sw_def)
    /\ IF sw_valid' = "None"
       THEN sw_pc' = "validated" /\ UNCHANGED sw_result
       ELSE sw_pc' = "done" /\ sw_result' = Raised("PoeException", sw_valid', <<>>)
    /\ UNCHANGED <<sw_def, ctx_dry, case_specs, switch_tasks, sw_inv, sw_control,
                   sw_control_args, sw_output_read, sw_case_ran, sw_case_args,
                   sw_multistage>>
    /\ UNCHANGED <<optVars, seqVars, cfgVars>>

\* SwitchTask.TaskSpec.__init__
SwBuildSpec ==
    /\ sw_pc = "validated"
    /\ LET built == BuildCaseSpecs(sw_def.cases, 1, <<>>)
       IN  IF built.exc = "none"
           THEN /\ case_specs' = built.items
                /\ sw_pc' = "spec_built"
                /\ UNCHANGED sw_result
           ELSE /\ sw_result' = Raised(built.exc, "unhashable type: 'list'", <<>>)
                /\ sw_pc' = "done"
                /\ UNCHANGED case_specs
    /\ UNCHANGED <<sw_def, ctx_dry, sw_valid, switch_tasks, sw_inv, sw_control,
                   sw_control_args, sw_output_read, sw_case_ran, sw_case_args,
                   sw_multistage>>
    /\ UNCHANGED <<optVars, seqVars, cfgVars>>

\* SwitchTask.__init__.  Line 106 reads self.spec.control, an attribute
\* that TaskSpec.__init__ (lines 48-84) never sets: whether the read succeeds
\* is up to the base TaskSpec, so both outcomes are taken.
SwInstantiate ==
    /\ sw_pc = "spec_built"
    /\ \E spec_has_control \in BOOLEAN :
         LET made == RegisterCases(case_specs, 1, NoTasks)
         IN  IF ~spec_has_control
             THEN /\ sw_result' = Raised("AttributeError",
                                         "'TaskSpec' object has no attribute 'control'",
                                         <<>>)
                  /\ sw_pc' = "done"
                  /\ UNCHANGED switch_tasks
             ELSE IF made.exc = "none"
             THEN /\ switch_tasks' = made.tasks
                  /\ sw_pc' = "instantiated"
                  /\ UNCHANGED sw_result
             ELSE /\ sw_result' = Raised(made.exc, "name 'name' is not defined", <<>>)
                  /\ sw_pc' = "done"
                  /\ UNCHANGED switch_tasks
    /\ UNCHANGED <<sw_def, ctx_dry, sw_valid, case_specs, sw_inv, sw_control,
                   sw_control_args, sw_output_read, sw_case_ran, sw_case_args,
                   sw_multistage>>
    /\ UNCHANGED <<optVars, seqVars, cfgVars>>

\* SwitchTask._handle_run, lines 175-188: the argument check, the multistage
\* mark, and the call of the control task's run
SwBegin ==
    /\ sw_pc = "instantiated"
    /\ \E inv \in SwInvocations :
         /\ sw_inv' = inv
         /\ IF ~inv.named /\ AnyNonBlank(inv.extra)
            THEN /\ sw_result' = Raised("PoeException", "does not accept arguments", <<>>)
                 /\ sw_pc' = "done"
                 /\ UNCHANGED <<sw_multistage, sw_control, sw_control_args>>
            ELSE /\ sw_multistage' = TRUE
                 /\ sw_control' = "running"
                 /\ sw_control_args' = IF inv.args_option THEN inv.extra ELSE <<>>
                 /\ sw_pc' = "control_running"
                 /\ UNCHANGED sw_result
    /\ UNCHANGED <<sw_def, ctx_dry, sw_valid, case_specs, switch_tasks,
                   sw_output_read, sw_case_ran, sw_case_args>>
    /\ UNCHANGED <<optVars, seqVars, cfgVars>>

\* A wrong line 189: the control task's result is not looked at.
ControlFailed_Never(task_result) == FALSE

\* switch.py line 189: if task_result
ControlFailed(task_result) == task_result # 0

\* A wrong line 194: a dry run goes on to the dispatch.
EndsDryRun_Never(dry) == FALSE

\* switch.py line 194: if context.dry
EndsDryRun(dry) == dry

\* SwitchTask._handle_run, lines 184-198: the control task's run returns
SwControlEnds ==
    /\ sw_pc = "control_running"
    /\ sw_control' = "returned"
    /\ IF ControlFailed(sw_def.control.rc)
       THEN /\ sw_result' = Raised("ExecutionError", "aborted after failed control task",
                                   <<sw_def.name>>)
            /\ sw_pc' = "done"
       ELSE IF EndsDryRun(ctx_dry)
       THEN /\ sw_result' = Returned(0)
            /\ sw_pc' = "done"
       ELSE /\ sw_pc' = "resolve"
            /\ UNCHANGED sw_result
    /\ UNCHANGED <<sw_def, ctx_dry, sw_valid, case_specs, switch_tasks, sw_inv,
                   sw_control_args, sw_output_read, sw_case_ran, sw_case_args,
                   sw_multistage>>
    /\ UNCHANGED <<optVars, seqVars, cfgVars>>

\* SwitchTask._handle_run, lines 200-213: the control output is read, the
\* case looked up and, when there is one, run to its end
SwResolve ==
    /\ sw_pc = "resolve"
    /\ sw_output_read' = TRUE
    /\ LET control_task_output == sw_def.control.out
           case_task == LookupCase(switch_tasks, control_task_output)
       IN  IF case_task = 0
           THEN /\ sw_result' =
                     IF UnmatchedPasses(sw_def.default) THEN Returned(0)
                     ELSE Raised("ExecutionError", "did not match any cases",
                                 <<control_task_output>>)
                /\ UNCHANGED <<sw_case_ran, sw_case_args>>
           ELSE /\ sw_case_ran' = Append(sw_case_ran, case_task)
                /\ sw_case_args' = sw_inv.extra
                /\ \E rc \in {0, 1} : sw_result' = Returned(rc)
    /\ sw_pc' = "done"
    /\ UNCHANGED <<sw_def, ctx_dry, sw_valid, case_specs, switch_tasks, sw_inv,
                   sw_control, sw_control_args, sw_multistage>>
    /\ UNCHANGED <<optVars, seqVars, cfgVars>>

SwNext ==
    SwValidate \/ SwBuildSpec \/ SwInstantiate \/ SwBegin \/ SwControlEnds \/ SwResolve

----------------------------------------------------------------------------
(* Config loader and merger.                                               *)

\* The deepest working directory, counted in levels below the root.
MaxDepth == 1
\* The most calls of load() on one PoeConfig.
MaxLoads == 2

TaskNames == {"a", "b", "c"}

\* A task table of a config file: each task's definition is known by the
\* file it comes from and its name.
TaskTable(origin, names) == [n \in names |-> origin \o ":" \o n]

NoTable == [n \in {} |-> ""]

\* One entry of the `include` option: a path string, or a record with some
\* of the keys path, cwd and others.
IncludeStr(path) == [is_str |-> TRUE, path |-> path, keys |-> {}]
IncludeRec(path, keys) == [is_str |-> FALSE, path |-> path, keys |-> keys]

\* The `include` option: unset, a string, a record, or a list of entries.
IncludeOption(form, items) == [form |-> form, items |-> items]
NoInclude == IncludeOption("none", <<>>)

IncludeOptions ==
    {NoInclude,
     IncludeOption("str", <<IncludeStr("inc1")>>),
     IncludeOption("dict", <<IncludeRec("inc1", {"path"})>>),
     IncludeOption("dict", <<IncludeRec("inc2", {"path", "cwd"})>>),
     IncludeOption("dict", <<IncludeRec("", {"cwd"})>>),
     IncludeOption("dict", <<IncludeRec("inc1", {"path", "other"})>>),
     IncludeOption("list", <<IncludeStr("inc1"), IncludeStr("inc2")>>),
     IncludeOption("list", <<IncludeStr("inc2"), IncludeStr("inc1")>>),
     IncludeOption("list", <<IncludeRec("inc1", {"path", "cwd"}), IncludeStr("inc2")>>),
     IncludeOption("list", <<IncludeStr("inc1"), IncludeStr("inc1")>>),
     IncludeOption("list", <<IncludeStr("inc1"), IncludeRec("", {"cwd"})>>),
     IncludeOption("list", <<IncludeStr("inc1"), IncludeRec("inc2", {"path", "other"})>>)}

\* The poe section of a config: whether it has a `tasks` key, the task
\* table, the `include` option.
PoeSection(has_tasks, tasks, include) ==
    [has_tasks |-> has_tasks, tasks |-> tasks, include |-> include]
EmptyPoe == PoeSection(FALSE, NoTable, NoInclude)

\* A file: missing, unparsable, parsable without a poe section, or parsable
\* with one.
File(kind, poe) == [kind |-> kind, poe |-> poe]

ProjectSections ==
    {PoeSection(FALSE, NoTable, i) : i \in IncludeOptions}
    \cup {PoeSection(TRUE, TaskTable("root", names), i) :
            names \in SUBSET TaskNames, i \in IncludeOptions}

IncludedSections(path, sets) ==
    {PoeSection(FALSE, NoTable, NoInclude)}
    \cup {PoeSection(TRUE, TaskTable(path, names), NoInclude) : names \in sets}

Inc1Files ==
    {File("missing", EmptyPoe), File("unparsable", EmptyPoe), File("no_poe", EmptyPoe)}
    \cup {File("ok", poe) :
            poe \in IncludedSections("inc1", {{}, {"a"}, {"b"}, {"a", "b"}, {"b", "c"}})}

Inc2Files ==
    {File("missing", EmptyPoe), File("unparsable", EmptyPoe)}
    \cup {File("ok", poe) : poe \in IncludedSections("inc2", {{"a", "c"}, {"b"}})}

\* ConfigPartition.get("tasks"): the bound table, else, by PoeOptions.get,
\* the empty value of the field's type, a mapping in both ConfigOptions.
ConfigGetTasks(poe) == IF poe.has_tasks THEN poe.tasks ELSE NoTable

RECURSIVE OverlayInOrder(_, _, _)
\* result.update(config.get("tasks")) over the included configs from the
\* first to the last
OverlayInOrder(result, included, i) ==
    IF i > Len(included) THEN result
    ELSE OverlayInOrder(DictUpdate(result, ConfigGetTasks(included[i].poe)),
                        included, i + 1)

RECURSIVE OverlayReversed(_, _, _)
\* config.py lines 132-133: result.update(config.get("tasks")) over
\* reversed(self._included_config)
OverlayReversed(result, included, i) ==
    IF i < 1 THEN result
    ELSE OverlayReversed(DictUpdate(result, ConfigGetTasks(included[i].poe)),
                         included, i - 1)

\* A wrong tasks: the included configs are overlaid in declaration order.
tasks_InOrder(project, included) ==
    DictUpdate(OverlayInOrder(NoTable, included, 1), ConfigGetTasks(project.poe))

\* PoeConfig.tasks
tasks(project, included) ==
    DictUpdate(OverlayReversed(NoTable, included, Len(included)),
               ConfigGetTasks(project.poe))

\* What a call of the loader gave.
CfgOk == [exc |-> "none", msg |-> ""]
CfgRaised(exc, msg) == [exc |-> exc, msg |-> msg]

\* PoeConfig._read_config_file followed by ConfigPartition.__init__: a parse
\* failure is a PoeException, a missing poe section a KeyError.
ReadPartition(file) ==
    IF file.kind = "unparsable" THEN [exc |-> "PoeException", poe |-> EmptyPoe]
    ELSE IF file.kind = "no_poe" THEN [exc |-> "KeyError", poe |-> EmptyPoe]
    ELSE [exc |-> "none", poe |-> file.poe]

\* config.py lines 334-347, for one entry of a list
ListItemValid(include) ==
    \/ include.is_str
    \/ ("path" \in include.keys /\ include.path # "" /\ include.keys \subseteq {"path", "cwd"})

\* config.py lines 327-347: the option as a list of records, or the
\* PoeException for a bad entry of a list
NormalizeIncludes(include_option) ==
    IF include_option.form \in {"str", "dict"}
    THEN [exc |-> "none", includes |-> include_option.items]
    ELSE IF include_option.form = "list"
    THEN IF \A i \in 1..Len(include_option.items) : ListItemValid(include_option.items[i])
         THEN [exc |-> "none", includes |-> include_option.items]
         ELSE [exc |-> "PoeException", includes |-> <<>>]
    ELSE [exc |-> "none", includes |-> <<>>]

IncludeFile(fs, path) == IF path = "inc1" THEN fs.inc1 ELSE fs.inc2

RECURSIVE LoadEach(_, _, _, _)
\* config.py lines 350-373: each include in turn; include["path"] of a
\* record without that key raises KeyError, a missing file is skipped, a
\* file that cannot be read as a config raises PoeException
LoadEach(fs, includes, i, included) ==
    IF i > Len(includes) THEN [result |-> CfgOk, included |-> included]
    ELSE LET include == includes[i]
         IN  IF ~include.is_str /\ "path" \notin include.keys
             THEN [result |-> CfgRaised("KeyError", "'path'"), included |-> included]
             ELSE LET file == IncludeFile(fs, include.path)
                      part == ReadPartition(file)
                  IN  IF file.kind = "missing"
                      THEN LoadEach(fs, includes, i + 1, included)
                      ELSE IF part.exc # "none"
                      THEN [result |-> CfgRaised("PoeException",
                                                 "Invalid content in included file"),
                            included |-> included]
                      ELSE LoadEach(fs, includes, i + 1,
                                    Append(included, [path |-> include.path,
                                                      poe |-> part.poe]))

\* PoeConfig._load_includes
_load_includes(fs, project, included) ==
    LET norm == NormalizeIncludes(project.poe.include)
    IN  IF norm.exc # "none"
        THEN [result |-> CfgRaised("PoeException", "Invalid item for the include option"),
              included |-> included]
        ELSE LoadEach(fs, norm.includes, 1, included)

RECURSIVE SearchUp(_, _, _)
\* config.py lines 313-320, for a candidate path that is absolute: the
\* directory at depth d is tried; the search ends there if it has the file,
\* fails if it is the root (the candidate has one parent), and goes on with
\* the parent directory otherwise.  Gives the depth found (-1 for the
\* PoeException) and the depths tried.
SearchUp(fs, d, checked) ==
    IF d \in fs.levels THEN [found |-> d, checked |-> Append(checked, d)]
    ELSE IF d = 0 THEN [found |-> -1, checked |-> Append(checked, d)]
    ELSE SearchUp(fs, d - 1, Append(checked, d))

\* config.py lines 312-320.  With cwd given as "." the first candidate is
\* the relative path of the bare file name, which has one parent, ".": when
\* the file is not there the search fails at once.
SearchFromCwd(fs, from, relative) ==
    IF relative
    THEN [found |-> IF from \in fs.levels THEN from ELSE -1, checked |-> <<from>>]
    ELSE SearchUp(fs, from, <<>>)

\* load()'s target_dir: none, or a directory or a config file path at a depth
NoTarget == [kind |-> "none", depth |-> 0]

\* PoeConfig.find_config_file: the depth of the directory of the file found,
\* or -1 for the PoeException, and the depths of the directories tried
find_config_file(fs, from, relative, target) ==
    IF target.kind # "none"
    THEN [found |-> IF target.depth \in fs.levels THEN target.depth ELSE -1,
          checked |-> <<target.depth>>]
    ELSE SearchFromCwd(fs, from, relative)

NoFind == [target |-> NoTarget, found |-> -1, checked |-> <<>>, called |-> FALSE]

\* validate() was not called, on a config whose poe section is empty.
NoValidate == [called |-> FALSE, exc |-> "none", steps |-> <<>>]

ValIdle ==
    /\ raw_poe_config = EmptyDict
    /\ validate_call = NoValidate

\* ProjectConfig({"tool.poe": table or {}}) as __init__ builds it
TableConfig(table) == [poe |-> table, found_at |-> -1]

CfgIdle ==
    /\ ValIdle
    /\ cfg_fs = [levels |-> {}, project |-> File("missing", EmptyPoe),
                 inc1 |-> File("missing", EmptyPoe), inc2 |-> File("missing", EmptyPoe)]
    /\ cwd = 0
    /\ cwd_relative = FALSE
    /\ find_call = NoFind
    /\ _project_config = TableConfig(EmptyPoe)
    /\ _included_config = <<>>
    /\ _project_dir = 0
    /\ cfg_loads = 0
    /\ cfg_result = CfgOk

\* After PoeConfig.__init__, either with a table (and the files it includes)
\* or without one (and a project file somewhere at or above cwd, or nowhere).
CfgInit ==
    /\ ValIdle
    /\ cwd \in 0..MaxDepth
    /\ cwd_relative = FALSE
    /\ find_call = NoFind
    /\ \E table \in ProjectSections, inc1 \in Inc1Files, inc2 \in Inc2Files :
         \/ /\ _project_config = TableConfig(table)
            /\ \E levels \in {{}, {cwd}} :
                 cfg_fs = [levels |-> levels,
                           project |-> File("ok", PoeSection(TRUE, TaskTable("root", {"c"}),
                                                             table.include)),
                           inc1 |-> inc1, inc2 |-> inc2]
         \/ /\ _project_config = TableConfig(EmptyPoe)
            /\ \E levels \in SUBSET (0..MaxDepth), kind \in {"ok", "unparsable", "no_poe"} :
                 cfg_fs = [levels |-> levels,
                           project |-> File(kind, IF kind = "ok" THEN table ELSE EmptyPoe),
                           inc1 |-> inc1, inc2 |-> inc2]
    /\ _included_config = <<>>
    /\ _project_dir = cwd
    /\ cfg_loads = 0
    /\ cfg_result = CfgOk

\* PoeConfig.load, lines 177-180: a project config that has tasks is kept,
\* and its includes are loaded unless some are loaded already
CfgLoadKeep ==
    /\ cfg_loads < MaxLoads
    /\ ConfigGetTasks(_project_config.poe) # NoTable
    /\ cfg_loads' = cfg_loads + 1
    /\ IF _included_config = <<>>
       THEN LET got == _load_includes(cfg_fs, _project_config, _included_config)
            IN  /\ _included_config' = got.included
                /\ cfg_result' = got.result
       ELSE /\ cfg_result' = CfgOk
            /\ UNCHANGED _included_config
    /\ UNCHANGED <<cfg_fs, cwd, cwd_relative, find_call, _project_config, _project_dir>>
    /\ UNCHANGED <<optVars, seqVars, swVars, valVars>>

\* PoeConfig.load, lines 182-196: the project file is found and read, and
\* its includes are loaded
CfgLoadDiscover ==
    /\ cfg_loads < MaxLoads
    /\ ConfigGetTasks(_project_config.poe) = NoTable
    /\ cfg_loads' = cfg_loads + 1
    /\ \E target \in {NoTarget} \cup [kind : {"dir", "file"}, depth : 0..cwd] :
         LET found == find_config_file(cfg_fs, cwd, cwd_relative, target).found
             part == ReadPartition(cfg_fs.project)
         IN  IF found = -1
             THEN /\ cfg_result' = CfgRaised("PoeException", "Poe could not find a config file")
                  /\ UNCHANGED <<_project_config, _included_config, _project_dir>>
             ELSE /\ _project_dir' = found
                  /\ IF part.exc = "PoeException"
                     THEN /\ cfg_result' = CfgRaised("PoeException", "Couldn't parse file")
                          /\ UNCHANGED <<_project_config, _included_config>>
                     ELSE IF part.exc = "KeyError"
                     THEN /\ cfg_result' = CfgRaised("PoeException",
                                                     "No poe configuration found in file")
                          /\ UNCHANGED <<_project_config, _included_config>>
                     ELSE LET project == [poe |-> part.poe, found_at |-> found]
                              got == _load_includes(cfg_fs, project, _included_config)
                          IN  /\ _project_config' = project
                              /\ _included_config' = got.included
                              /\ cfg_result' = got.result
    /\ UNCHANGED <<cfg_fs, cwd, cwd_relative, find_call>>
    /\ UNCHANGED <<optVars, seqVars, swVars, valVars>>

CfgNext == CfgLoadKeep \/ CfgLoadDiscover

\* A PoeConfig made without a table, with cwd absolute or ".", and the
\* project file in any of the directories from cwd up to the root.
FindInit ==
    /\ ValIdle
    /\ cwd \in 0..MaxDepth
    /\ cwd_relative \in BOOLEAN
    /\ find_call = NoFind
    /\ \E levels \in SUBSET (0..MaxDepth), kind \in {"ok", "unparsable", "no_poe"} :
         cfg_fs = [levels |-> levels, project |-> File(kind, EmptyPoe),
                   inc1 |-> File("missing", EmptyPoe), inc2 |-> File("missing", EmptyPoe)]
    /\ _project_config = TableConfig(EmptyPoe)
    /\ _included_config = <<>>
    /\ _project_dir = cwd
    /\ cfg_loads = 0
    /\ cfg_result = CfgOk

\* PoeConfig.find_config_file, called on its own
FindCall ==
    /\ \E target \in {NoTarget} \cup [kind : {"dir", "file"}, depth : 0..cwd] :
         LET got == find_config_file(cfg_fs, cwd, cwd_relative, target)
         IN  /\ find_call' = [target |-> target, found |-> got.found,
                              checked |-> got.checked, called |-> TRUE]
             /\ cfg_result' = IF got.found = -1
                              THEN CfgRaised("PoeException",
                                             "Poe could not find a config file")
                              ELSE CfgOk
    /\ UNCHANGED <<cfg_fs, cwd, cwd_relative, _project_config, _included_config,
                   _project_dir, cfg_loads>>
    /\ UNCHANGED <<optVars, seqVars, swVars, valVars>>

FindNext == FindCall

----------------------------------------------------------------------------
(* Config validation.                                                      *)

\* The values the poe section may give to the keys that validate() looks
\* at, by their repr; `unknown_key` is a key that no field declares.
PoeOptionValues ==
    [k \in {"unknown_key", "default_task_type", "env", "envfile", "executor",
            "shell_interpreter", "verbosity", "tasks"} |->
        CASE k = "unknown_key" -> {"1"}
          [] k = "default_task_type" -> {"'cmd'", "'bogus'", "7"}
          [] k = "env" -> {"{'A': 'x'}", "{'A': 7}"}
          [] k = "envfile" -> {"'.env'", "['.env']"}
          [] k = "executor" -> {"{'type': 'auto'}", "{'type': 'bogus'}"}
          [] k = "shell_interpreter" -> {"'bash'", "'foo'", "['bash']"}
          [] k = "verbosity" -> {"-2", "-1", "0", "2", "3", "'x'"}
          [] k = "tasks" -> {"{'t': 'ok'}", "{'t': 'bad'}"}]

\* type(value).__name__ of a value given by its repr
PyTypeOf(v) ==
    CASE v \in {"'cmd'", "'bogus'", "'.env'", "'bash'", "'foo'", "'x'", "'posix'",
                "'sequence'", "'ref'"} -> "str"
      [] v \in {"-2", "-1", "0", "1", "2", "3", "7"} -> "int"
      [] v \in {"['.env']", "['bash']"} -> "list"
      [] OTHER -> "dict"

\* isinstance(value, t) for one type: a subscripted generic cannot be used
\* in an instance check and raises TypeError.
IsInstanceOf(v, t) ==
    IF t \in {"str", "int", "bool", "dict", "list"}
    THEN IF PyTypeOf(v) = t THEN "True" ELSE "False"
    ELSE "TypeError"

RECURSIVE IsInstanceOfAny(_, _, _)
\* isinstance(value, (t1, t2, ...)): the members are tried in order, the
\* first that matches ends the check.
IsInstanceOfAny(v, types, i) ==
    IF i > Len(types) THEN "False"
    ELSE LET one == IsInstanceOf(v, types[i])
         IN  IF one = "False" THEN IsInstanceOfAny(v, types, i + 1) ELSE one

\* ConfigPartition.is_option_type_valid, for a key the section gives
is_option_type_valid(raw, key) ==
    LET attrs == OptionsInit("ProjectConfig.ConfigOptions", raw)
        value == get("ProjectConfig.ConfigOptions", attrs, key, "None")
        expected_type == type_of("ProjectConfig.ConfigOptions", key)
    IN  IsInstanceOfAny(value, expected_type.types, 1)

\* supported_options.keys(), in the order get_fields builds the dict
SupportedOrder ==
    <<"default_task_type", "default_array_task_type", "default_array_item_task_type",
      "env", "envfile", "executor", "include", "poetry_command", "poetry_hooks",
      "shell_interpreter", "verbosity", "tasks">>

\* Whether the name option_type of line 224 is bound when the message of
\* the PoeException is built: nothing binds it.
OptionTypeIsBound == FALSE

RECURSIVE TypeStep(_, _)
\* config.py lines 218-225: the loop over the supported keys, from the
\* i-th on; the exception that leaves it, or "none"
TypeStep(raw, i) ==
    IF i > Len(SupportedOrder) THEN "none"
    ELSE IF SupportedOrder[i] \notin DOMAIN raw THEN TypeStep(raw, i + 1)
    ELSE LET valid == is_option_type_valid(raw, SupportedOrder[i])
         IN  IF valid = "TypeError" THEN "TypeError"
             ELSE IF valid = "True" THEN TypeStep(raw, i + 1)
             ELSE IF OptionTypeIsBound THEN "PoeException" ELSE "NameError"

\* The value of an option as the properties of lines 121-166 give it.
OptionValue(raw, key, default) ==
    get("ProjectConfig.ConfigOptions", OptionsInit("ProjectConfig.ConfigOptions", raw),
        key, default)

\* PoeExecutor.validate_config(self.executor): an error for an executor
\* type that is not known
ExecutorError(executor) == executor = "{'type': 'bogus'}"

\* PoeTask.is_task_type(value, content_type=str)
is_task_type(v) == v \in {"'cmd'", "'script'", "'shell'", "'expr'", "'ref'"}

\* config.py lines 254-266: some entry of env is neither a string nor a
\* {default: string} record
EnvError(env) == env = "{'A': 7}"

\* PoeTask.validate_def gives an error for some task of the merged table
TaskError(tasks_value) == tasks_value = "{'t': 'bad'}"

KNOWN_SHELL_INTERPRETERS ==
    {"'posix'", "'sh'", "'bash'", "'zsh'", "'fish'", "'pwsh'", "'powershell'", "'python'"}

\* PoeConfig.shell_interpreter, lines 157-162: the items of a list, else
\* the value alone
shell_interpreter(raw_value) ==
    IF PyTypeOf(raw_value) = "list"
    THEN (IF raw_value = "['bash']" THEN {"'bash'"} ELSE {"'.env'"})
    ELSE {raw_value}

\* config.py line 283: self.verbosity < -1 or self.verbosity > 2
VerbosityOutOfRange(v) ==
    LET verbosity == CASE v = "-2" -> -2 [] v = "-1" -> -1 [] v = "2" -> 2
                       [] v = "3" -> 3 [] OTHER -> 0
    IN  verbosity < -1 \/ verbosity > 2

ValidateSteps == <<"keys", "types", "executor", "default_task_type", "env", "tasks",
                   "shell_interpreter", "verbosity">>

\* What one step of _validate_config raises, "none" if it passes.
StepRaises(raw, step) ==
    CASE step = "keys" ->
             IF DOMAIN raw \ DOMAIN get_fields("ProjectConfig.ConfigOptions") # {}
             THEN "PoeException" ELSE "none"
      [] step = "types" -> TypeStep(raw, 1)
      [] step = "executor" ->
             IF ExecutorError(OptionValue(raw, "executor", "{'type': 'auto'}"))
             THEN "PoeException" ELSE "none"
      [] step = "default_task_type" ->
             IF ~is_task_type(OptionValue(raw, "default_task_type", "NoValue"))
             THEN "PoeException" ELSE "none"
      [] step = "env" ->
             IF EnvError(OptionValue(raw, "env", "NoValue")) THEN "PoeException" ELSE "none"
      [] step = "tasks" ->
             IF TaskError(OptionValue(raw, "tasks", "NoValue")) THEN "PoeException"
             ELSE "none"
      [] step = "shell_interpreter" ->
             IF \E interpreter \in shell_interpreter(OptionValue(raw, "shell_interpreter",
                                                                   "NoValue")) :
                   interpreter \notin KNOWN_SHELL_INTERPRETERS
             THEN "PoeException" ELSE "none"
      [] step = "verbosity" ->
             IF VerbosityOutOfRange(OptionValue(raw, "verbosity", "NoValue"))
             THEN "PoeException" ELSE "none"

RECURSIVE _validate_config(_, _, _)
\* PoeConfig._validate_config, from the i-th step on: the steps in order,
\* up to the first that raises
_validate_config(raw, i, begun) ==
    IF i > Len(ValidateSteps) THEN [exc |-> "none", steps |-> begun]
    ELSE LET raised == StepRaises(raw, ValidateSteps[i])
         IN  IF raised # "none"
             THEN [exc |-> raised, steps |-> Append(begun, ValidateSteps[i])]
             ELSE _validate_config(raw, i + 1, Append(begun, ValidateSteps[i]))

\* A project config whose poe section gives some of the keys.
ValInit ==
    /\ \E given \in [DOMAIN PoeOptionValues -> BOOLEAN] :
         \E unknown_key \in PoeOptionValues["unknown_key"],
            default_task_type \in PoeOptionValues["default_task_type"],
            env \in PoeOptionValues["env"],
            envfile \in PoeOptionValues["envfile"],
            executor \in PoeOptionValues["executor"],
            interpreter_value \in PoeOptionValues["shell_interpreter"],
            verbosity \in PoeOptionValues["verbosity"],
            tasks_value \in PoeOptionValues["tasks"] :
              LET all == [unknown_key |-> unknown_key,
                          default_task_type |-> default_task_type,
                          env |-> env, envfile |-> envfile, executor |-> executor,
                          shell_interpreter |-> interpreter_value,
                          verbosity |-> verbosity, tasks |-> tasks_value]
              IN  raw_poe_config = [k \in {j \in DOMAIN all : given[j]} |-> all[k]]
    /\ validate_call = NoValidate

\* PoeConfig.validate
Validate ==
    /\ LET done == _validate_config(raw_poe_config, 1, <<>>)
       IN  validate_call' = [called |-> TRUE, exc |-> done.exc, steps |-> done.steps]
    /\ UNCHANGED <<cfg_fs, cwd, cwd_relative, find_call, _project_config,
                   _included_config, _project_dir, cfg_loads, cfg_result, raw_poe_config>>
    /\ UNCHANGED <<optVars, seqVars, swVars>>

ValNext == Validate

----------------------------------------------------------------------------
(* Specifications, one per component; the other components stay idle.      *)

InitOptions == OptInit /\ SeqIdle /\ SwIdle /\ CfgIdle
SpecOptions == InitOptions /\ [][OptNext]_vars

InitSeq == SeqInit /\ OptIdle /\ SwIdle /\ CfgIdle
SpecSeq == InitSeq /\ [][SeqNext]_vars

InitSwitch == SwInit /\ OptIdle /\ SeqIdle /\ CfgIdle
SpecSwitch == InitSwitch /\ [][SwNext]_vars

InitConfig == CfgInit /\ OptIdle /\ SeqIdle /\ SwIdle
SpecConfig == InitConfig /\ [][CfgNext]_vars

InitFind == FindInit /\ OptIdle /\ SeqIdle /\ SwIdle
SpecFind == InitFind /\ [][FindNext]_vars

InitValidate ==
    /\ ValInit
    /\ cfg_fs = [levels |-> {}, project |-> File("missing", EmptyPoe),
                 inc1 |-> File("missing", EmptyPoe), inc2 |-> File("missing", EmptyPoe)]
    /\ cwd = 0
    /\ cwd_relative = FALSE
    /\ find_call = NoFind
    /\ _project_config = TableConfig(EmptyPoe)
    /\ _included_config = <<>>
    /\ _project_dir = 0
    /\ cfg_loads = 0
    /\ cfg_result = CfgOk
    /\ OptIdle /\ SeqIdle /\ SwIdle
SpecValidate == InitValidate /\ [][ValNext]_vars

InitFields == FieldsInit /\ SeqIdle /\ SwIdle /\ CfgIdle
SpecFields == InitFields /\ [][FieldsNext]_vars

----------------------------------------------------------------------------
(* Claims about the sequence task, checked under SpecSeq.                  *)

\* _handle_run got past its argument check and ended.
SeqRanToEnd == seq_pc = "done" /\ seq_result.exc # "PoeException"

\* The subtask's run reports a non-zero result: it returns one.  (The run of
\* a nested sequence never does: it returns 0 or raises.)
ReportsFailure(task) == task.kind = "leaf" /\ task.rc # 0

FirstN(n) == [i \in 1..n |-> i]

\* C2: with ignore_fail false or unset, once a subtask has reported a
\* non-zero result the sequence has ended with an ExecutionError naming that
\* subtask, and the subtasks started are exactly those up to it: none after
\* it was started.
C2_StopsAtFirstFailure ==
    seq_def.ignore_fail \in {"NoValue", "False"} =>
        \A k \in 1..Len(seq_def.subtasks) :
            (\E i \in 1..Len(seq_returned) : seq_returned[i] = k)
            /\ ReportsFailure(seq_def.subtasks[k])
            => /\ seq_pc = "done"
               /\ seq_result = Raised("ExecutionError",
                                      "Sequence aborted after failed subtask",
                                      <<_subtask_name(seq_def.name, k - 1)>>)
               /\ seq_started = FirstN(k)

\* C2's case: [ok, fail, ok] with ignore_fail unset has stopped after the
\* second subtask.
C2_Witness ==
    /\ seq_def.ignore_fail = "NoValue"
    /\ seq_def.subtasks = <<Leaf(0), Leaf(1), Leaf(0)>>
    /\ seq_pc = "done"
    /\ seq_started = <<1, 2>>
    /\ seq_result.exc = "ExecutionError"
    /\ seq_result.names = <<"seq[1]">>

RECURSIVE Raises(_)
\* A subtask's run raises: never a leaf's; a nested sequence's when one of
\* its own subtasks raises, or reports a non-zero result that the nested
\* sequence does not ignore (ignore_fail unset, false or "return_non_zero").
Raises(task) ==
    /\ task.kind = "sequence"
    /\ \E i \in 1..Len(task.subtasks) :
         \/ Raises(task.subtasks[i])
         \/ /\ ReportsFailure(task.subtasks[i])
            /\ task.ignore_fail \in {"NoValue", "False", "'return_non_zero'"}

\* A subtask fails: by a non-zero result or by raising.
Fails(task) == ReportsFailure(task) \/ Raises(task)

RECURSIVE FailedNames(_, _, _)
\* The names of the subtasks, from the i-th on, that fail.
FailedNames(subtasks, name, i) ==
    IF i > Len(subtasks) THEN <<>>
    ELSE (IF Fails(subtasks[i]) THEN <<_subtask_name(name, i - 1)>> ELSE <<>>)
         \o FailedNames(subtasks, name, i + 1)

\* The position of the first subtask whose run raises, 0 if none does.
FirstRaising(subtasks) ==
    IF \E k \in 1..Len(subtasks) : Raises(subtasks[k])
    THEN CHOOSE k \in 1..Len(subtasks) :
            Raises(subtasks[k]) /\ \A j \in 1..(k - 1) : ~Raises(subtasks[j])
    ELSE 0

\* The names of the sequence's own subtasks.
OwnNames == {_subtask_name(seq_def.name, k - 1) : k \in 1..Len(seq_def.subtasks)}

\* The run ended at subtask k with an ExecutionError that is not one the
\* sequence makes itself: it names none of the sequence's own subtasks.
EndedByErrorOf(k) ==
    /\ seq_started = FirstN(k)
    /\ seq_result.exc = "ExecutionError"
    /\ seq_result.names # <<>>
    /\ \A j \in 1..Len(seq_result.names) : seq_result.names[j] \notin OwnNames

\* C3 as stated: with ignore_fail = "return_non_zero", a run that got past
\* its argument check started every subtask exactly once, in order, and
\* reports an ExecutionError listing exactly the failed subtasks if there is
\* one, and 0 otherwise.
C3_Claim ==
    SeqRanToEnd /\ seq_def.ignore_fail = "'return_non_zero'" =>
        /\ seq_started = FirstN(Len(seq_def.subtasks))
        /\ LET failed == FailedNames(seq_def.subtasks, seq_def.name, 1)
           IN  seq_result = IF failed # <<>>
                            THEN Raised("ExecutionError",
                                        "returned non-zero exit status", failed)
                            ELSE Returned(0)

\* C3, amended: with ignore_fail = "return_non_zero", a run that got past
\* its argument check and in which no subtask's run raised started every
\* subtask exactly once, in order, and reports an ExecutionError listing
\* exactly the subtasks that returned non-zero if there is one, and 0
\* otherwise; a run in which a subtask's run raised ended at the first such
\* subtask with that subtask's error, and started none after it.
C3_RunsAllUnlessRaised ==
    SeqRanToEnd /\ seq_def.ignore_fail = "'return_non_zero'" =>
        LET k == FirstRaising(seq_def.subtasks)
            failed == FailedNames(seq_def.subtasks, seq_def.name, 1)
        IN  IF k = 0
            THEN /\ seq_started = FirstN(Len(seq_def.subtasks))
                 /\ seq_result = IF failed # <<>>
                                 THEN Raised("ExecutionError",
                                             "returned non-zero exit status", failed)
                                 ELSE Returned(0)
            ELSE EndedByErrorOf(k)

\* C3's case: [ok, fail, ok] with ignore_fail = "return_non_zero" ran all
\* three and reports the second.
C3_Witness ==
    /\ seq_def.ignore_fail = "'return_non_zero'"
    /\ seq_def.subtasks = <<Leaf(0), Leaf(1), Leaf(0)>>
    /\ seq_pc = "done"
    /\ seq_started = <<1, 2, 3>>
    /\ seq_result.exc = "ExecutionError"
    /\ seq_result.names = <<"seq[1]">>

\* C4 as stated: with ignore_fail = true or "return_zero", a run that got
\* past its argument check started every subtask exactly once, in order,
\* and returned 0, whatever the subtasks are and however they ended.
C4_Claim ==
    SeqRanToEnd /\ seq_def.ignore_fail \in {"True", "'return_zero'"} =>
        /\ seq_started = FirstN(Len(seq_def.subtasks))
        /\ seq_result = Returned(0)

\* C4, amended: with ignore_fail = true or "return_zero", a run that got
\* past its argument check and in which no subtask's run raised started
\* every subtask exactly once, in order, and returned 0, whatever the
\* subtasks returned; a run in which a subtask's run raised ended at the
\* first such subtask with that subtask's error, and started none after it.
C4_ReturnsZeroUnlessRaised ==
    SeqRanToEnd /\ seq_def.ignore_fail \in {"True", "'return_zero'"} =>
        LET k == FirstRaising(seq_def.subtasks)
        IN  IF k = 0
            THEN /\ seq_started = FirstN(Len(seq_def.subtasks))
                 /\ seq_result = Returned(0)
            ELSE EndedByErrorOf(k)

\* C4's case: a sequence with ignore_fail = true whose first subtask fails
\* and whose second is a nested sequence ran both and returned 0.
C4_Witness ==
    /\ seq_def.ignore_fail = "True"
    /\ Len(seq_def.subtasks) >= 2
    /\ seq_def.subtasks[1] = Leaf(1)
    /\ seq_def.subtasks[2].kind = "sequence"
    /\ seq_pc = "done"
    /\ seq_started = FirstN(Len(seq_def.subtasks))
    /\ seq_result = Returned(0)

----------------------------------------------------------------------------
(* Claims about the options schema, checked under SpecOptions.             *)

RECURSIVE DeclaredType(_, _)
\* The type a class or one of its ancestors declares for a field, the
\* class's own declaration first; "undeclared" if none does.
DeclaredType(cls, key) ==
    IF key \in DOMAIN OwnAnnotations(cls) THEN OwnAnnotations(cls)[key]
    ELSE IF Len(Bases(cls)) = 0 THEN "undeclared"
    ELSE DeclaredType(Bases(cls)[1], key)

IsDeclaredField(cls, key) ==
    DeclaredType(cls, key) # "undeclared" /\ ~StartsWithUnderscore(key)

\* The type-driven empty value of the claim: an empty mapping for a
\* mapping-typed field, an empty sequence for a sequence-typed field, the
\* no-argument construction of the first member for a union-typed field,
\* and that of the type itself for a plain type.
EmptyValueOf(t) ==
    CASE t \in {"Mapping[str, str]", "Mapping[str, Any]", "Dict[str, str]",
                "Dict[str, Any]", "dict"} -> "{}"
      [] t \in {"Sequence[str]", "List[str]", "list"} -> "[]"
      [] GetOrigin(t) = "Union" -> Construct(GetArgs(t)[1])
      [] OTHER -> Construct(t)

C10_Claim ==
    opt_call.op = "is_set" /\ IsDeclaredField(opt_cls, opt_call.key) =>
        (opt_call.result = "True" <=> opt_call.key \in DOMAIN opt_dict)

----------------------------------------------------------------------------
(* Claims about the switch task, checked under SpecSwitch.                 *)

\* The values a case definition is tagged with; none for an untagged case.
CaseValues(case_def) ==
    {case_def.case.values[j] : j \in 1..Len(case_def.case.values)}

IsUntagged(case_def) == case_def.case.kind = "absent"

\* The case the claim says is dispatched to for an output: the one tagged
\* with it, else the untagged one, else none (0).
ExpectedCase(task_def, output) ==
    LET tagged == {i \in 1..Len(task_def.cases) : output \in CaseValues(task_def.cases[i])}
        untagged == {i \in 1..Len(task_def.cases) : IsUntagged(task_def.cases[i])}
    IN  IF tagged # {} THEN CHOOSE i \in tagged : TRUE
        ELSE IF untagged # {} THEN CHOOSE i \in untagged : TRUE
        ELSE 0

\* C5: a validated switch, built and run outside dry-run mode with a
\* succeeding control task and arguments it accepts, has run the case tagged
\* with the control output, or else the untagged case, when there is one.
C5_Claim ==
    /\ sw_pc = "done"
    /\ sw_valid = "None"
    /\ ~ctx_dry
    /\ sw_def.control.rc = 0
    /\ sw_result.exc # "PoeException"
    /\ ExpectedCase(sw_def, sw_def.control.out) # 0
    => sw_case_ran = <<ExpectedCase(sw_def, sw_def.control.out)>>

\* C6: when the run has looked the control output up, no case is tagged with
\* it and no case is untagged, the switch has run no case, and has raised an
\* ExecutionError naming the output if `default` is unset or "fail", and
\* returned 0 if `default` is "pass".
C6_UnmatchedWithoutDefault ==
    /\ sw_pc = "done"
    /\ sw_output_read
    /\ ExpectedCase(sw_def, sw_def.control.out) = 0
    => /\ sw_case_ran = <<>>
       /\ sw_def.default \in {"NoValue", "'fail'"} =>
              sw_result = Raised("ExecutionError", "did not match any cases",
                                 <<sw_def.control.out>>)
       /\ sw_def.default = "'pass'" => sw_result = Returned(0)

\* C6's case: output "z" matched nothing, `default` is unset, and the switch
\* failed naming "z".
C6_Witness ==
    /\ sw_pc = "done"
    /\ sw_output_read
    /\ sw_def.control.out = "z"
    /\ sw_def.default = "NoValue"
    /\ sw_result.exc = "ExecutionError"
    /\ sw_result.names = <<"z">>
    /\ sw_case_ran = <<>>

\* Some value tags two cases, or one case twice.
HasRepeatedValue(task_def) ==
    \E i, j \in 1..Len(task_def.cases) :
        \E p \in 1..Len(task_def.cases[i].case.values),
           q \in 1..Len(task_def.cases[j].case.values) :
            /\ <<i, p>> # <<j, q>>
            /\ task_def.cases[i].case.values[p] = task_def.cases[j].case.values[q]

HasTwoUntagged(task_def) ==
    \E i, j \in 1..Len(task_def.cases) :
        i # j /\ IsUntagged(task_def.cases[i]) /\ IsUntagged(task_def.cases[j])

\* C7: validation returns an error for every definition in which a case
\* value occurs more than once or more than one case is untagged; a
\* definition that passes has neither.
C7_DuplicateCasesRejected ==
    sw_valid # "not validated" /\ (HasRepeatedValue(sw_def) \/ HasTwoUntagged(sw_def))
    => sw_valid # "None"

\* C7's case: "a" tags one case and is in the list of another, nothing else
\* is wrong, and validation refused the definition for it.
C7_Witness ==
    /\ sw_def.cases = <<CaseDef(ScalarCase("a"), {}, FALSE),
                        CaseDef(ListCase(<<"a", "b">>), {}, FALSE)>>
    /\ sw_valid = "includes more than one case for a value"

\* C8: validation returns an error when `default` is given and is not
\* "pass" or "fail", and when `default` is given together with an untagged
\* case; without `default`, a definition with one untagged case and nothing
\* else wrong passes.
C8_DefaultOptionChecked ==
    sw_valid # "not validated" =>
        /\ sw_def.default \notin {"NoValue", "'pass'", "'fail'"} => sw_valid # "None"
        /\ (sw_def.default # "NoValue" /\ \E i \in 1..Len(sw_def.cases) :
                                              IsUntagged(sw_def.cases[i]))
           => sw_valid # "None"
        /\ sw_def.default = "NoValue" =>
              /\ sw_valid \notin
                   {"should not have both a default case and the 'default' option",
                    "The 'default' option should be one of ('pass', 'fail')"}
              /\ (/\ sw_def.control.form # "absent"
                  /\ sw_def.control.form = "dict" => sw_def.control.typed
                  /\ ~sw_def.control.issue
                  /\ \A i \in 1..Len(sw_def.cases) :
                        sw_def.cases[i].opts = {} /\ ~sw_def.cases[i].issue
                  /\ ~HasRepeatedValue(sw_def) /\ ~HasTwoUntagged(sw_def))
                 => sw_valid = "None"

\* C8's case: `default` is "pass", one case is untagged, and validation
\* refused the pair.
C8_Witness ==
    /\ sw_def.default = "'pass'"
    /\ \E i \in 1..Len(sw_def.cases) : IsUntagged(sw_def.cases[i])
    /\ sw_valid = "should not have both a default case and the 'default' option"


\* The root's own task table.
RootTasks == ConfigGetTasks(_project_config.poe)

\* The included configs, by position, that define the task.
DefinedBy(n) ==
    {i \in 1..Len(_included_config) : n \in DOMAIN ConfigGetTasks(_included_config[i].poe)}

Earliest(n) == CHOOSE i \in DefinedBy(n) : \A j \in DefinedBy(n) : i <= j

\* C1: for every root task table and every ordered list of loaded included
\* configs, PoeConfig.tasks has as keys the union of all the task names, and
\* maps each name to the root project's definition when the root defines
\* it, otherwise to the definition of the earliest-declared include that
\* defines it.
C1_TasksMergePrecedence ==
    LET merged == tasks(_project_config, _included_config)
    IN  /\ DOMAIN merged = DOMAIN RootTasks \cup {n \in TaskNames : DefinedBy(n) # {}}
        /\ \A n \in DOMAIN merged :
             merged[n] = IF n \in DOMAIN RootTasks
                         THEN RootTasks[n]
                         ELSE ConfigGetTasks(_included_config[Earliest(n)].poe)[n]

\* load() has loaded two included configs that define a common task the
\* root does not define, and one that the root defines too.
C1_Witness ==
    /\ cfg_loads > 0
    /\ Len(_included_config) = 2
    /\ \E n \in TaskNames \ DOMAIN RootTasks : DefinedBy(n) = {1, 2}
    /\ \E n \in DOMAIN RootTasks : DefinedBy(n) # {}
    /\ _included_config[1].poe.tasks # _included_config[2].poe.tasks

----------------------------------------------------------------------------
(* Claims about get_fields, checked under SpecFields.                      *)

\* Every name some class declares.
DeclaredNames == UNION {DOMAIN OwnAnnotations(c) : c \in FieldClasses \cup {"PoeOptions"}}

\* The fields of a class as the claim has them: every name the class or any
\* of its ancestors declares that does not start with an underscore, with
\* the type of the nearest declaration, the class's own first.
AllDeclaredFields(cls) ==
    [key \in {k \in DeclaredNames : IsDeclaredField(cls, k)} |-> DeclaredType(cls, key)]

\* C11: every call of get_fields() on an options type, at any inheritance
\* depth, returns exactly the fields declared by the type and by all of its
\* ancestors whose names do not start with an underscore, the own
\* declaration winning a clash; as every call returns that same dict,
\* repeated calls on a type return the same field set.
C11_Claim ==
    fields_call.cls # "none" =>
        fields_call.result = AllDeclaredFields(fields_call.cls)

----------------------------------------------------------------------------
(* Claims about find_config_file, checked under SpecFind.                  *)

\* The directories from the working directory up to the root, nearest first.
UpFrom(d) == [i \in 1..(d + 1) |-> d + 1 - i]

\* The nearest directory at or above the working directory that has the
\* config file; -1 if none has.
Nearest(fs, d) ==
    IF \E l \in fs.levels : l <= d
    THEN CHOOSE l \in fs.levels : l <= d /\ \A k \in fs.levels : k <= d => k <= l
    ELSE -1

\* C12: a call of find_config_file with no target_dir has returned the
\* config path of the nearest directory at or above the working directory
\* that contains the file; if no directory from the working directory up to
\* the root contains it, the call has raised a PoeException after trying
\* every one of those directories.
C12_Claim ==
    find_call.called /\ find_call.target = NoTarget =>
        /\ find_call.found = Nearest(cfg_fs, cwd)
        /\ find_call.found = -1 =>
              /\ cfg_result.exc = "PoeException"
              /\ find_call.checked = UpFrom(cwd)

----------------------------------------------------------------------------
(* Claims about the config loader, checked under SpecConfig.               *)

\* The first load() has got as far as _load_includes.
IncludesLoaded ==
    /\ cfg_loads = 1
    /\ cfg_result.msg \notin {"Poe could not find a config file", "Couldn't parse file",
                              "No poe configuration found in file"}

\* An entry of `include` is malformed: a record without `path`, or with a
\* key other than path and cwd.
MalformedEntry(include) ==
    /\ ~include.is_str
    /\ ("path" \notin include.keys \/ include.path = ""
        \/ ~(include.keys \subseteq {"path", "cwd"}))

RECURSIVE LoadableUpTo(_, _, _)
\* The configs of the entries before the n-th whose file exists, in order.
LoadableUpTo(fs, entries, n) ==
    IF n <= 1 THEN <<>>
    ELSE LoadableUpTo(fs, entries, n - 1)
         \o (IF IncludeFile(fs, entries[n - 1].path).kind = "ok"
             THEN <<[path |-> entries[n - 1].path,
                     poe |-> IncludeFile(fs, entries[n - 1].path).poe]>>
             ELSE <<>>)

\* C13: once load() has run _load_includes, with `include` a path string, a
\* record or a list of both: a malformed entry, an unparsable file or a file
\* without the poe section has made it raise a PoeException, and nothing
\* else has made it raise; without such a problem the included configs are
\* those of the entries whose file exists, in declaration order, the
\* entries whose file is missing being skipped.
C13_Claim ==
    IncludesLoaded =>
        LET entries == _project_config.poe.include.items
            malformed == \E i \in 1..Len(entries) : MalformedEntry(entries[i])
            bad_file == \E i \in 1..Len(entries) :
                           /\ ~MalformedEntry(entries[i])
                           /\ IncludeFile(cfg_fs, entries[i].path).kind
                                 \in {"unparsable", "no_poe"}
        IN  /\ cfg_result.exc \in {"none", "PoeException"}
            /\ malformed \/ bad_file => cfg_result.exc = "PoeException"
            /\ ~malformed /\ ~bad_file =>
                  /\ cfg_result.exc = "none"
                  /\ _included_config = LoadableUpTo(cfg_fs, entries, Len(entries) + 1)

----------------------------------------------------------------------------
(* Claims about config validation, checked under SpecValidate.             *)

\* The value fits the declared type: a string or a list for a union of str
\* and a sequence, a dict for a mapping.
FitsDeclaredType(v, t) ==
    CASE t \in {"str", "int"} -> PyTypeOf(v) = t
      [] GetOrigin(t) = "collections.abc.Mapping" -> PyTypeOf(v) = "dict"
      [] GetOrigin(t) = "Union" -> PyTypeOf(v) \in {"str", "list"}
      [] OTHER -> FALSE

\* The config violates what the step checks.
Violates(raw, step) ==
    LET has(k, bad) == k \in DOMAIN raw /\ raw[k] \in bad
    IN  CASE step = "keys" -> "unknown_key" \in DOMAIN raw
          [] step = "types" ->
                 \E k \in DOMAIN raw \ {"unknown_key"} :
                    ~FitsDeclaredType(raw[k], DeclaredType("ProjectConfig.ConfigOptions", k))
          [] step = "executor" -> has("executor", {"{'type': 'bogus'}"})
          [] step = "default_task_type" -> has("default_task_type", {"'bogus'", "7"})
          [] step = "env" -> has("env", {"{'A': 7}"})
          [] step = "tasks" -> has("tasks", {"{'t': 'bad'}"})
          [] step = "shell_interpreter" -> has("shell_interpreter", {"'foo'"})
          [] step = "verbosity" -> has("verbosity", {"-2", "3", "'x'"})

\* The position of the earliest step the config violates, 0 if none.
EarliestViolated(raw) ==
    IF \E i \in 1..Len(ValidateSteps) : Violates(raw, ValidateSteps[i])
    THEN CHOOSE i \in 1..Len(ValidateSteps) :
            /\ Violates(raw, ValidateSteps[i])
            /\ \A j \in 1..(i - 1) : ~Violates(raw, ValidateSteps[j])
    ELSE 0

\* C14: validate() has taken its steps in the fixed order; for a config
\* with a violation it has raised a PoeException at the earliest step
\* violated and begun no later step, and for a config without violation it
\* has taken every step and raised nothing.
C14_Claim ==
    validate_call.called =>
        LET i == EarliestViolated(raw_poe_config)
        IN  IF i = 0
            THEN validate_call.exc = "none" /\ validate_call.steps = ValidateSteps
            ELSE /\ validate_call.exc = "PoeException"
                 /\ validate_call.steps = SubSeq(ValidateSteps, 1, i)

----------------------------------------------------------------------------
(* Claims about load(), checked under SpecConfig.                          *)

\* The PoeConfig still holds the table it was constructed with, and the
\* table has some content.
HoldsGivenTable ==
    _project_config.found_at = -1 /\ _project_config.poe # EmptyPoe

\* A load() on a config holding a table leaves the project config and the
\* project directory alone and does not fail looking for a file.
TableKept ==
    HoldsGivenTable =>
        /\ _project_config' = _project_config
        /\ _project_dir' = _project_dir
        /\ cfg_result'.msg \notin {"Poe could not find a config file", "Couldn't parse file",
                                   "No poe configuration found in file"}

\* The entries of the project's include option, as far as they are well
\* formed.
DeclaredIncludes ==
    LET norm == NormalizeIncludes(_project_config.poe.include)
    IN  IF norm.exc = "none" THEN norm.includes ELSE <<>>

\* No include file is in the included list more often than the project
\* declares it, and after a load() that succeeded every declared file that
\* exists and holds a config is there exactly as often as it is declared.
IncludedOnce ==
    \A p \in {"inc1", "inc2"} :
        LET have == Cardinality({i \in DOMAIN _included_config :
                                    _included_config[i].path = p})
            declared == Cardinality({i \in DOMAIN DeclaredIncludes :
                                        /\ DeclaredIncludes[i].path = p
                                        /\ ReadPartition(IncludeFile(cfg_fs, p)).exc = "none"
                                        /\ IncludeFile(cfg_fs, p).kind # "missing"})
        IN  /\ have <= declared
            /\ (cfg_loads > 0 /\ cfg_result = CfgOk) => have = declared

\* C15: on a PoeConfig constructed with a table, load() never looks for a
\* file nor replaces the project config, whatever the table holds; and
\* after any number of load() calls on any PoeConfig each existing include
\* file the project declares is in the included list exactly once per
\* declaration.
C15_Claim == [][TableKept]_vars /\ []IncludedOnce

----------------------------------------------------------------------------
(* Claims about the order of a sequence's subtasks, checked under SpecSeq. *)

\* The subtasks whose run was started and has not ended.
SeqRunning == {i \in 1..Len(seq_def.subtasks) :
                 /\ \E k \in DOMAIN seq_started : seq_started[k] = i
                 /\ ~\E k \in DOMAIN seq_returned : seq_returned[k] = i}

\* C16: the subtasks of a sequence are started in declaration order, each at
\* most once; a subtask is started only after the run of the one before it
\* has returned, and no two subtasks are running at the same time.
C16_StartedInOrder ==
    /\ Len(seq_started) <= Len(seq_def.subtasks)
    /\ \A k \in DOMAIN seq_started : seq_started[k] = k
    /\ \A k \in DOMAIN seq_started :
          k > 1 => \E j \in DOMAIN seq_returned : seq_returned[j] = k - 1
    /\ \A j \in DOMAIN seq_returned : seq_returned[j] = j
    /\ Len(seq_returned) <= Len(seq_started)
    /\ Cardinality(SeqRunning) <= 1

\* The third subtask is running after the first two have returned.
C16_Witness ==
    /\ seq_pc = "running"
    /\ seq_started = <<1, 2, 3>>
    /\ seq_returned = <<1, 2>>
    /\ SeqRunning = {3}

----------------------------------------------------------------------------
(* Claims about the run of a switch, checked under SpecSwitch.             *)

\* The control task's run has returned with this exit status.
ControlReturned(rc) == sw_control = "returned" /\ sw_def.control.rc = rc

\* C17: the control task is run before anything else of the switch; when it
\* reports a non-zero result the switch ends with an ExecutionError naming
\* the switch task, and no case task, the default case included, is started.
C17_ControlFailureAborts ==
    /\ (sw_output_read \/ sw_case_ran # <<>>) => sw_control = "returned"
    /\ ControlReturned(1) =>
          /\ sw_pc = "done"
          /\ sw_result.exc = "ExecutionError"
          /\ sw_result.names = <<sw_def.name>>
          /\ sw_case_ran = <<>>
          /\ ~sw_output_read

\* The control task of a switch has failed in a real run.
C17_Witness ==
    /\ ControlReturned(1)
    /\ ~ctx_dry
    /\ sw_result.exc = "ExecutionError"
    /\ sw_result.names = <<"sw">>

\* C18: at most one case task is run, and only after the control task has
\* succeeded; it is given the switch's own extra arguments, and the result
\* of the switch is the result of that case task.  No run reaches a state
\* in which a case task was started.
C18_AtMostOneCase ==
    /\ Len(sw_case_ran) <= 1
    /\ sw_case_ran # <<>> =>
          /\ ControlReturned(0)
          /\ sw_case_args = sw_inv.extra
          /\ sw_result.exc = "none"

\* C19: in a dry run whose control task succeeds the switch returns 0, runs
\* no case task and does not read the control task's captured output; a
\* control task that fails aborts the switch in a dry run too.
C19_DryRunSkipsDispatch ==
    ctx_dry =>
        /\ ControlReturned(0) =>
              /\ sw_pc = "done"
              /\ sw_result = Returned(0)
              /\ sw_case_ran = <<>>
              /\ ~sw_output_read
        /\ ControlReturned(1) =>
              /\ sw_pc = "done"
              /\ sw_result.exc = "ExecutionError"
              /\ sw_case_ran = <<>>
        /\ ~sw_output_read

\* A dry run has ended with 0 after its control task succeeded.
C19_Witness ==
    /\ ctx_dry
    /\ ControlReturned(0)
    /\ sw_result = Returned(0)
    /\ sw_pc = "done"

=============================================================================
